---------------------------- MODULE Spec2Model ----------------------------
(***************************************************************************)
(* Guest checkout of the storefront (blocks/commerce-checkout):            *)
(* the page instance created by decorate(), its handlers handlePlaceOrder  *)
(* and handlePayPalReturn, loadCart, the four adapter calls, and the two   *)
(* localStorage keys they share with the other pages.                      *)
(*                                                                         *)
(* One action is one JavaScript task: the code that runs from an event     *)
(* (page load, click, arrival of a fetch response) up to the next await    *)
(* of a network call, together with the microtasks it queues.              *)
(***************************************************************************)
EXTENDS Integers, Sequences, FiniteSets, TLC

\* ------------------------------------------------------------------ bounds
MaxPages == 3       \* page instances (loads of the checkout page) in a run
MaxAttempts == 2    \* place-order clicks that reach prepareCheckout, per page

NULL == "null"      \* JavaScript null / undefined / a missing storage key

CartIds == {"c1", "c2"}
Tokens == {"T1"}

\* ----------------------------------------------------------- form values
\* A field value is a sequence of characters.
Fields ==
    <<"guestEmail", "firstname", "lastname", "company", "street", "city",
      "region", "postcode", "country_code", "telephone">>

FieldSet == {Fields[i] : i \in 1..Len(Fields)}

IsSpace(c) == c = " "

RECURSIVE trimLeft(_)
trimLeft(s) == IF s # <<>> /\ IsSpace(Head(s)) THEN trimLeft(Tail(s)) ELSE s

RECURSIVE trimRight(_)
trimRight(s) ==
    IF s # <<>> /\ IsSpace(s[Len(s)])
    THEN trimRight(SubSeq(s, 1, Len(s) - 1))
    ELSE s

\* String.prototype.trim
trim(s) == trimRight(trimLeft(s))

\* /^[^\s@]+@[^\s@]+\.[^\s@]+$/ : no white space, exactly one "@" with a
\* non-empty local part, and a "." inside the domain with text on both sides.
isValidEmail(email) ==
    /\ \A i \in 1..Len(email) : ~IsSpace(email[i])
    /\ Cardinality({i \in 1..Len(email) : email[i] = "@"}) = 1
    /\ \E a \in 2..Len(email) :
          /\ email[a] = "@"
          /\ \E d \in (a + 2)..(Len(email) - 1) : email[d] = "."

RequiredMessage(f) ==
    CASE f = "guestEmail" -> "Email is required"
      [] f = "firstname" -> "First name is required"
      [] f = "lastname" -> "Last name is required"
      [] f = "company" -> "Company name is required"
      [] f = "street" -> "Street address is required"
      [] f = "city" -> "City is required"
      [] f = "region" -> "State/Region is required"
      [] f = "postcode" -> "Postal code is required"
      [] f = "country_code" -> "Country is required"
      [] f = "telephone" -> "Phone number is required"

\* (variant: a value is missing only when it is the empty string)
IsMissing_untrimmed(v) == v = <<>>

\* !formData.x || !formData.x.trim()
IsMissing(v) == v = <<>> \/ trim(v) = <<>>

\* errors: the fields that fail mapped to their message; the others to NULL.
validateErrors(formData) ==
    [f \in FieldSet |->
        IF IsMissing(formData[f]) THEN RequiredMessage(f)
        ELSE IF f = "guestEmail" /\ ~isValidEmail(formData[f])
             THEN "Please enter a valid email address"
             ELSE NULL]

ErrorKeys(errors) == {f \in FieldSet : errors[f] # NULL}

\* (variant: every form is valid)
validateForm_acceptsAll(formData) ==
    [isValid |-> TRUE, errors |-> validateErrors(formData)]

\* (variant: isValid looks at the email error only)
validateForm_emailOnly(formData) ==
    LET errors == validateErrors(formData)
    IN  [isValid |-> errors["guestEmail"] = NULL, errors |-> errors]

validateForm(formData) ==
    LET errors == validateErrors(formData)
    IN  [isValid |-> ErrorKeys(errors) = {}, errors |-> errors]

NoErrors == [f \in FieldSet |-> NULL]

\* What the user can have in the form: nothing, a complete valid address,
\* a complete address padded with blanks, one with a malformed email, and
\* one whose company is only blanks.
Txt == <<"a">>
GoodEmail == <<"a", "@", "b", ".", "c">>
BlankForm == [f \in FieldSet |-> <<>>]
ValidForm == [f \in FieldSet |-> IF f = "guestEmail" THEN GoodEmail ELSE Txt]
PaddedForm ==
    [f \in FieldSet |-> IF f = "guestEmail" THEN GoodEmail ELSE <<" ", "b", " ">>]
BadEmailForm == [ValidForm EXCEPT !["guestEmail"] = <<"a", "@", "b">>]
BlankCompanyForm == [ValidForm EXCEPT !["company"] = <<" ">>]

AllFormInputs == {BlankForm, ValidForm, PaddedForm, BadEmailForm, BlankCompanyForm}

\* What the user of the checkout flow types before a click.
FormInputs == {ValidForm, BadEmailForm}

\* formData.get(name)?.trim() || ''
TrimmedForm(form) == [f \in FieldSet |-> trim(form[f])]

\* ------------------------------------------------------ localStorage values
\* JSON.stringify of the address object: its members in insertion order.
JSONstringify(address) == [i \in 1..Len(Fields) |-> <<Fields[i], address[Fields[i]]>>]

\* JSON.parse of such a text: the object with those members.
JSONparse(text) ==
    [f \in {text[i][1] : i \in 1..Len(text)} |->
        LET i == CHOOSE j \in 1..Len(text) :
                    /\ text[j][1] = f
                    /\ \A k \in (j + 1)..Len(text) : text[k][1] # f
        IN  text[i][2]]


\* ------------------------------------------------------- remote responses
\* What a fetch can come back with: the transport fails, the status is not
\* OK (with one of five kinds of error body), the body of an OK response is
\* not JSON, or an OK response carries data.
ErrorBodies == {"json_message", "json_error", "json_other", "text", "empty"}

AllFailureResponses ==
    {[kind |-> "network", body |-> NULL], [kind |-> "bad_json", body |-> NULL]}
        \cup {[kind |-> "http_error", body |-> b] : b \in ErrorBodies}

\* The failures the checkout flow is run against: the flow only passes the
\* message on, so one failure per way of producing a message is kept (thrown
\* by fetch, taken from the error body).
FailureResponses ==
    {[kind |-> "network", body |-> NULL],
     [kind |-> "http_error", body |-> "json_message"]}

\* The message of the Error an adapter throws for a failed call.
\*   errorMessage = errorData?.message || errorData?.error || errorMessage
\*   catch { if (errorText) errorMessage = errorText }
AdapterErrorMessage(generic, resp) ==
    CASE resp.kind = "network" -> "Failed to fetch"
      [] resp.kind = "bad_json" -> "Unexpected token in JSON"
      [] resp.kind = "http_error" /\ resp.body = "json_message" -> "provider message"
      [] resp.kind = "http_error" /\ resp.body = "json_error" -> "provider error"
      [] resp.kind = "http_error" /\ resp.body = "json_other" -> generic
      [] resp.kind = "http_error" /\ resp.body = "text" -> "raw error text"
      [] resp.kind = "http_error" /\ resp.body = "empty" -> generic

\* cart-get / checkout-prepare data: the cart of the response, which may be
\* missing, may lack its prices, or may have items that are not a list.
NullCart == [null |-> TRUE, id |-> NULL, malformed |-> FALSE, items |-> 0, grand |-> {}]
ApiCart(c, n, g) == [null |-> FALSE, id |-> c, malformed |-> FALSE, items |-> n, grand |-> g]
MalformedCart(c) == [null |-> FALSE, id |-> c, malformed |-> TRUE, items |-> 0, grand |-> {}]

\* cart-get answers with no cart, a malformed one, an empty one or one item
\* for 50; checkout-prepare with no cart or the cart repriced to 55.
ApiCarts(c) == {NullCart, MalformedCart(c), ApiCart(c, 0, {}), ApiCart(c, 1, {50})}
PreparedCarts(c) == {NullCart, ApiCart(c, 1, {55})}

CartResponses(c) ==
    AllFailureResponses \cup {[kind |-> "ok", body |-> d] : d \in ApiCarts(c)}

PrepareResponses(c) ==
    FailureResponses \cup {[kind |-> "ok", body |-> d] : d \in PreparedCarts(c)}

\* (variant: a failed fetch yields a cart with an item)
getCart_anyCart(resp) == IF resp.kind = "ok" THEN resp.body ELSE ApiCart("c1", 1, {50})

\* getCart: every failure is caught and becomes null; data?.cart || null.
getCart(resp) == IF resp.kind = "ok" THEN resp.body ELSE NullCart

\* prepareCheckout: a failure is rethrown; data?.cart || null.
prepareCheckout(resp) ==
    IF resp.kind = "ok"
    THEN [threw |-> FALSE, msg |-> NULL, value |-> resp.body]
    ELSE [threw |-> TRUE, value |-> NullCart,
          msg |-> AdapterErrorMessage("Failed to prepare checkout: <status>", resp)]

\* paypal-order-create data: null, or an object whose approvalUrl names the
\* provider order (a token), or has no approvalUrl.
NoUrl == <<>>
ApprovalUrl(t) == <<"https://pay.example/approve?token=", t>>
NullPayPalOrder == [null |-> TRUE, approvalUrl |-> NoUrl]

PayPalOrders(ts) ==
    {NullPayPalOrder, [null |-> FALSE, approvalUrl |-> NoUrl]}
        \cup {[null |-> FALSE, approvalUrl |-> ApprovalUrl(t)] : t \in ts}

createPayPalOrder(resp) ==
    IF resp.kind = "ok"
    THEN [threw |-> FALSE, msg |-> NULL, value |-> resp.body]
    ELSE [threw |-> TRUE, value |-> NullPayPalOrder,
          msg |-> AdapterErrorMessage("Failed to create PayPal order: <status>", resp)]

\* paypal-order-capture data: null, or an object with or without a status.
NullCapture == [null |-> TRUE, status |-> NULL]
Captures ==
    {NullCapture} \cup {[null |-> FALSE, status |-> s] : s \in {"SUCCESS", "FAILED", NULL}}

CaptureResponses ==
    FailureResponses \cup {[kind |-> "ok", body |-> d] : d \in Captures}

capturePayPalOrder(resp) ==
    IF resp.kind = "ok"
    THEN [threw |-> FALSE, msg |-> NULL, value |-> resp.body]
    ELSE [threw |-> TRUE, value |-> NullCapture,
          msg |-> AdapterErrorMessage("Failed to capture PayPal payment: <status>", resp)]

\* checkout-place-order data: null, or an object with an optional orderNumber
\* and an optional order, which carries its number flat ({number}) or nested
\* ({order: {number}}).
OrderNo == "000000123"
NullPlaced == [null |-> TRUE, orderNumber |-> NULL, order |-> "none"]
PlacedOrders ==
    {NullPlaced}
        \cup {[null |-> FALSE, orderNumber |-> n, order |-> o] :
                n \in {NULL, OrderNo}, o \in {"none", "flat", "nested"}}

PlaceResponses ==
    FailureResponses \cup {[kind |-> "ok", body |-> d] : d \in PlacedOrders}

placeOrder(resp) ==
    IF resp.kind = "ok"
    THEN [threw |-> FALSE, msg |-> NULL, value |-> resp.body]
    ELSE [threw |-> TRUE, value |-> NullPlaced,
          msg |-> AdapterErrorMessage("Failed to place order: <status>", resp)]

\* orderResult.orderNumber || orderResult.order?.order?.number || ''
ShownOrderNumber(orderResult) ==
    IF orderResult.orderNumber # NULL THEN orderResult.orderNumber
    ELSE IF orderResult.order = "nested" THEN OrderNo
    ELSE ""

\* transformCartData: null for no cart, the display shape otherwise
\* (a missing grand total becomes 0).
NoCartData == [null |-> TRUE, id |-> NULL, items |-> 0, grandTotal |-> 0]
transformCartData(apiCart) ==
    IF apiCart.null THEN NoCartData
    ELSE [null |-> FALSE, id |-> apiCart.id, items |-> apiCart.items,
          grandTotal |-> IF apiCart.grand = {} THEN 0
                         ELSE CHOOSE v \in apiCart.grand : TRUE]

\* ------------------------------------------------------------------ state
VARIABLES
    localStorage,      \* [cartId, guestAddress]: the two keys of the checkout
    orders,            \* provider side: token -> the create call that made it
    pageNo,            \* page instances opened so far
    url,               \* token query parameter of the current page, or NULL
    pc,                \* where decorate() of the current page stands
    arg,               \* cart id passed to the getCart / placeOrder in flight
    po,                \* where handlePlaceOrder of the current page stands
    checkoutData,      \* the request handlePlaceOrder built for prepareCheckout
    createArgs,        \* cartId and amount passed to createPayPalOrder
    dom,               \* $wrapper, $empty, $form, $placeOrderBtn
    currentNotification,
    currentCartData,
    placeResult,       \* orderResult of handlePayPalReturn on the success path
    calls,             \* history: adapter calls made by the current page
    captureOutcome,    \* history: how the capture of the current page ended
    resumeFailure,     \* history: the step at which the resume failed
    attempt,           \* history: the steps of the latest place-order attempt
    completed,         \* history: tokens whose resume placed the order
    placedCarts,       \* history: cart ids for which an order was placed
    fieldInput,        \* the object validateForm is applied to
    validationResult,  \* what validateForm returned for it, if it was called
    edits,             \* corrections of a field made so far
    request,           \* the adapter operation whose fetch is in flight
    adapterLog,        \* how the adapter calls made so far ended
    comparedProducts,  \* localStorage: the value under 'comparedProducts'
    comparePage,       \* the page that is open: product, list or compare
    compareState,      \* what the compare page shows
    listenerList,      \* the list as the listeners of the page last read it
    lastCompareOp,     \* the latest add or remove and what it did
    filter,            \* the filter list of a search request
    filterParam,       \* the 'filter' URL parameter written for it
    filterFromParams,  \* the filter list read back from that parameter
    notifications,     \* the types of the notifications shown so far, in order
    notificationShown, \* whether the latest notification is in the document
    notificationTimers,\* the notifications whose 5-second timer is pending
    lastRemoval,       \* what removed a notification last, or nothing
    cartServer,        \* cart page: the quantity of the item in the service
    cartShown,         \* the quantity the page displays (currentCartData)
    cartInput,         \* the value of the quantity input, parsed
    cartDebounce,      \* the quantity held by the pending input timer
    cartRequests,      \* requests sent whose response has not arrived
    cartNotice,        \* the message of the latest notification
    cartIssued,        \* requests sent so far
    cartSent,          \* history: quantities sent in cart-update-item bodies
    cartHistory        \* history: the updates and removals requested

storeVars == <<localStorage, orders>>
pageVars == <<pageNo, url, pc, arg, po, checkoutData, createArgs, dom,
              currentNotification, currentCartData, placeResult>>
histVars == <<calls, captureOutcome, resumeFailure, attempt, completed,
              placedCarts>>
checkoutVars == <<storeVars, pageVars, histVars>>
valVars == <<fieldInput, validationResult, edits>>
adapterVars == <<request, adapterLog>>
compareVars == <<comparedProducts, comparePage, compareState, listenerList,
                 lastCompareOp>>
filterVars == <<filter, filterParam, filterFromParams>>
notifyVars == <<notifications, notificationShown, notificationTimers, lastRemoval>>
cartPageVars == <<cartServer, cartShown, cartInput, cartDebounce, cartRequests,
                  cartNotice, cartIssued, cartSent, cartHistory>>
sideVars == <<valVars, adapterVars, compareVars, filterVars, notifyVars,
              cartPageVars>>
vars == <<checkoutVars, sideVars>>

NoAddress == <<>>
NoNotification == [message |-> <<>>, type |-> NULL]
NoCheckoutData == [cartId |-> NULL, guestEmail |-> <<>>, shippingAddress |-> <<>>]
NoCreateArgs == [cartId |-> NULL, value |-> 0]
NoOrder == [issued |-> FALSE, cartId |-> NULL, value |-> 0]
NoCalls == [prepare |-> 0, create |-> 0, capture |-> 0, place |-> 0]
NoAttempt == [prepare |-> "none", create |-> "none", redirected |-> FALSE]

\* The fragment decorate() builds: the wrapper is displayed, $empty is not
\* and holds the empty-cart content, the button is enabled, the form blank.
InitialDom ==
    [wrapper |-> TRUE, empty |-> FALSE, emptyView |-> "emptyCart",
     detail |-> <<>>, orderNumber |-> "", btnDisabled |-> FALSE,
     form |-> BlankForm, fieldErrors |-> NoErrors, cartItems |-> 0]

getCartId == localStorage.cartId

\* saved ? JSON.parse(saved) : null, as the set of the objects read.
getSavedAddress ==
    IF localStorage.guestAddress = NoAddress THEN {}
    ELSE {JSONparse(localStorage.guestAddress)}

saveAddress(address) == [localStorage EXCEPT !.guestAddress = JSONstringify(address)]

\* (variant: the cart id stays in localStorage)
clearCartId_keeps == localStorage

clearCartId == [localStorage EXCEPT !.cartId = NULL]

showNotification(message, type) == [message |-> message, type |-> type]

\* No checkout page has been opened yet and localStorage is empty.
NoPage ==
    /\ localStorage = [cartId |-> NULL, guestAddress |-> NoAddress]
    /\ orders = [t \in Tokens |-> NoOrder]
    /\ pageNo = 0
    /\ url = NULL
    /\ pc = "closed"
    /\ arg = NULL
    /\ po = "idle"
    /\ checkoutData = NoCheckoutData
    /\ createArgs = NoCreateArgs
    /\ dom = InitialDom
    /\ currentNotification = NoNotification
    /\ currentCartData = NoCartData
    /\ placeResult = NullPlaced
    /\ calls = NoCalls
    /\ captureOutcome = "none"
    /\ resumeFailure = "none"
    /\ attempt = NoAttempt
    /\ completed = {}
    /\ placedCarts = {}

\* validateForm has not been called.
NotValidated == {}

\* No adapter operation has been called on its own.
NoAdapterCall ==
    /\ request = NULL
    /\ adapterLog = <<>>

\* Nothing is stored under 'comparedProducts' and no page using it is open.
NoStoredValue == [kind |-> "absent", items |-> <<>>]
NoCompareOp == [op |-> NULL, sku |-> NULL, success |-> FALSE, wrote |-> FALSE,
                emitted |-> FALSE, reloaded |-> FALSE]

NoCompare ==
    /\ comparedProducts = NoStoredValue
    /\ comparePage = NULL
    /\ compareState = NULL
    /\ listenerList = <<>>
    /\ lastCompareOp = NoCompareOp

\* No search request has been made.
NoFilter ==
    /\ filter = <<>>
    /\ filterParam = {}
    /\ filterFromParams = {}

\* No notification has been shown.
NoRemoval == [notification |-> 0, cause |-> NULL, timer |-> 0]

NoNotifications ==
    /\ notifications = <<>>
    /\ notificationShown = FALSE
    /\ notificationTimers = {}
    /\ lastRemoval = NoRemoval

\* No cart page is open.
NoCartPage ==
    /\ cartServer = 0
    /\ cartShown = 0
    /\ cartInput = [nan |-> FALSE, n |-> 0]
    /\ cartDebounce = {}
    /\ cartRequests = {}
    /\ cartNotice = NULL
    /\ cartIssued = 0
    /\ cartSent = {}
    /\ cartHistory = [updates |-> 0, lastUpdateCart |-> 0, onlyUpdates |-> TRUE,
                      lastRemove |-> "none"]

Init ==
    /\ NoPage
    /\ fieldInput = BlankForm
    /\ validationResult = NotValidated
    /\ edits = 0
    /\ NoAdapterCall
    /\ NoCompare
    /\ NoFilter
    /\ NoNotifications
    /\ NoCartPage

\* ---------------------------------------------------------------- loadCart
\* loadCart up to its await of getCart: with no cart id the empty state is
\* shown and it returns; otherwise getCart(cartId) is in flight.
loadCartStart(d) ==
    IF getCartId = NULL
    THEN [dom |-> [d EXCEPT !.wrapper = FALSE, !.empty = TRUE],
          pc |-> "ready", arg |-> NULL]
    ELSE [dom |-> d, pc |-> "loadingCart", arg |-> getCartId]

\* (variant: the saved address is not copied into the form)
Rehydrate_skip(form) == form

\* The form after the saved address, if any, was copied into its inputs.
Rehydrate(form) ==
    IF getSavedAddress = {} THEN form
    ELSE LET saved == CHOOSE a \in getSavedAddress : TRUE
         IN  [f \in FieldSet |-> IF f \in DOMAIN saved THEN saved[f] ELSE form[f]]

\* loadCart from the arrival of the cart-get response.
loadCart(resp) ==
    /\ UNCHANGED sideVars
    /\ pc = "loadingCart"
    /\ LET apiCart == getCart(resp)
       IN  IF apiCart.malformed
           THEN \* transformCartData throws; caught at the end of loadCart
                /\ currentNotification' = showNotification(<<"Failed to load cart">>, "error")
                /\ dom' = [dom EXCEPT !.wrapper = FALSE, !.empty = TRUE]
                /\ UNCHANGED currentCartData
           ELSE /\ currentCartData' = transformCartData(apiCart)
                /\ IF ~currentCartData'.null /\ currentCartData'.items > 0
                   THEN dom' = [dom EXCEPT !.cartItems = currentCartData'.items,
                                           !.wrapper = TRUE, !.empty = FALSE,
                                           !.form = Rehydrate(dom.form)]
                   ELSE dom' = [dom EXCEPT !.wrapper = FALSE, !.empty = TRUE]
                /\ UNCHANGED currentNotification
    /\ pc' = "ready"
    /\ arg' = NULL
    /\ UNCHANGED <<storeVars, pageNo, url, placeResult, po, checkoutData, createArgs, histVars>>

\* ------------------------------------------------------ handlePayPalReturn
\* (variant: the status of the capture is not looked at)
CaptureSettled_anyStatus(captureResult) == ~captureResult.null

\* captureResult && captureResult.status === 'SUCCESS'
CaptureSettled(captureResult) ==
    ~captureResult.null /\ captureResult.status = "SUCCESS"

\* (variant: a missing cart id is not noticed)
CartPresent_always(cartId) == TRUE

\* if (!cartId): 'Cart not found' is thrown on the resume path and shown as a
\* notification by handlePlaceOrder.
CartPresent(cartId) == cartId # NULL

\* (variant: any non-empty place-order result counts as an order)
OrderReturned_any(orderResult) == ~orderResult.null

\* orderResult && orderResult.order
OrderReturned(orderResult) == ~orderResult.null /\ orderResult.order # "none"

\* (variant: a place-order call that failed is issued again)
ResumeFailed_retry(step, message) ==
    IF step = "placeCall"
    THEN /\ pc' = "placing"
         /\ arg' = arg
         /\ dom' = dom
         /\ resumeFailure' = step
         /\ calls' = [calls EXCEPT !.place = @ + 1]
    ELSE LET shown == [dom EXCEPT !.emptyView = "error", !.detail = message]
             next == loadCartStart(shown)
         IN  /\ dom' = next.dom
             /\ pc' = next.pc
             /\ arg' = next.arg
             /\ resumeFailure' = step
             /\ UNCHANGED calls

\* The catch of handlePayPalReturn followed by what decorate does with the
\* false it returns: the error content is put into $empty, then loadCart runs
\* up to its first await.
ResumeFailed(step, message) ==
    LET shown == [dom EXCEPT !.emptyView = "error", !.detail = message]
        next == loadCartStart(shown)
    IN  /\ dom' = next.dom
        /\ pc' = next.pc
        /\ arg' = next.arg
        /\ resumeFailure' = step
        /\ UNCHANGED calls

\* The message of the Error thrown for a capture that did not settle.
CaptureFailureMessage(r) ==
    IF r.threw THEN <<"Failed to capture payment: ", r.msg>>
    ELSE IF r.value.null THEN <<"Payment capture returned no result">>
    ELSE <<"Payment capture was not completed successfully. Status: ",
           IF r.value.status = NULL THEN "unknown" ELSE r.value.status>>

CaptureFailureStep(r) ==
    IF r.threw THEN "captureCall"
    ELSE IF r.value.null THEN "captureEmpty" ELSE "notSettled"

CaptureOutcomeOf(r) ==
    IF r.threw THEN "threw"
    ELSE IF r.value.null THEN "empty"
    ELSE IF r.value.status = "SUCCESS" THEN "SUCCESS" ELSE "notSettled"

\* handlePayPalReturn from the arrival of the capture response up to the
\* await of placeOrder, or to its catch.
handlePayPalReturn_captured(resp) ==
    /\ UNCHANGED sideVars
    /\ pc = "capturing"
    /\ LET r == capturePayPalOrder(resp)
       IN  /\ captureOutcome' = CaptureOutcomeOf(r)
           /\ IF r.threw \/ ~CaptureSettled(r.value)
              THEN ResumeFailed(CaptureFailureStep(r), CaptureFailureMessage(r))
              ELSE IF ~CartPresent(getCartId)
              THEN ResumeFailed("cartMissing", <<"Cart not found">>)
              ELSE /\ dom' = [dom EXCEPT !.emptyView = "placingOrder"]
                   /\ pc' = "placing"
                   /\ arg' = getCartId
                   /\ calls' = [calls EXCEPT !.place = @ + 1]
                   /\ UNCHANGED resumeFailure
    /\ UNCHANGED <<storeVars, pageNo, url, placeResult, po, checkoutData, createArgs,
                   currentNotification, currentCartData, attempt, completed,
                   placedCarts>>

\* What came back from checkout-place-order, as the history records it.
PlaceOutcomeOf(r) ==
    IF r.threw THEN "threw"
    ELSE IF r.value.null THEN "empty"
    ELSE IF r.value.order = "none" THEN "noOrder" ELSE "order"

\* handlePayPalReturn from the arrival of the place-order response to its end.
handlePayPalReturn_placed(resp) ==
    /\ UNCHANGED sideVars
    /\ pc = "placing"
    /\ LET r == placeOrder(resp)
       IN  IF r.threw \/ ~OrderReturned(r.value)
           THEN /\ ResumeFailed(IF r.threw THEN "placeCall" ELSE "placeEmpty",
                                IF r.threw THEN <<"Failed to place order: ", r.msg>>
                                ELSE <<"Failed to place order">>)
                /\ UNCHANGED <<localStorage, placeResult>>
           ELSE /\ localStorage' = clearCartId
                /\ placeResult' = r.value
                /\ dom' = [dom EXCEPT !.emptyView = "success",
                                      !.orderNumber = ShownOrderNumber(r.value)]
                /\ pc' = "ready"
                /\ arg' = NULL
                /\ UNCHANGED <<resumeFailure, calls>>
    /\ IF PlaceOutcomeOf(placeOrder(resp)) = "order"
       THEN /\ completed' = completed \cup {url}
            /\ placedCarts' = placedCarts \cup {arg}
       ELSE UNCHANGED <<completed, placedCarts>>
    /\ UNCHANGED <<orders, pageNo, url, po, checkoutData, createArgs,
                   currentNotification, currentCartData, captureOutcome, attempt>>

\* ---------------------------------------------------------------- decorate
IssuedTokens == {t \in Tokens : orders[t].issued}

\* (variant: the token of the URL is not looked at)
isPayPalReturn_never(token) == FALSE

\* isPayPalReturn && paypalToken: the URL carries a token
isPayPalReturn(token) == token # NULL

\* A load of the checkout page (a first visit, the return from the provider,
\* or a reload) with `token` in its URL: the layout is built, the click
\* listener attached, and either handlePayPalReturn runs up to its await of
\* capturePayPalOrder or loadCart runs up to its await of getCart.
decorate(token) ==
    /\ UNCHANGED sideVars
    /\ pageNo < MaxPages
    /\ pageNo' = pageNo + 1
    /\ url' = token
    /\ po' = "idle"
    /\ checkoutData' = NoCheckoutData
    /\ createArgs' = NoCreateArgs
    /\ currentNotification' = NoNotification
    /\ currentCartData' = NoCartData
    /\ placeResult' = NullPlaced
    /\ captureOutcome' = "none"
    /\ resumeFailure' = "none"
    /\ attempt' = NoAttempt
    /\ IF isPayPalReturn(token)
       THEN /\ dom' = [InitialDom EXCEPT !.wrapper = FALSE, !.empty = TRUE,
                                         !.emptyView = "processing"]
            /\ pc' = "capturing"
            /\ arg' = NULL
            /\ calls' = [NoCalls EXCEPT !.capture = 1]
       ELSE /\ LET next == loadCartStart(InitialDom)
               IN  /\ dom' = next.dom
                   /\ pc' = next.pc
                   /\ arg' = next.arg
            /\ calls' = NoCalls
    /\ UNCHANGED <<storeVars, completed, placedCarts>>

\* -------------------------------------------------------- handlePlaceOrder
\* The request for checkout-prepare built from the cart id and the form data.
BuildCheckoutData(cartId, data) ==
    [cartId |-> cartId,
     guestEmail |-> data["guestEmail"],
     shippingAddress |->
        [vat_id |-> <<>>,
         city |-> data["city"],
         company |-> data["company"],
         country_code |-> data["country_code"],
         firstname |-> data["firstname"],
         lastname |-> data["lastname"],
         postcode |-> data["postcode"],
         region |-> <<"C", "A">>,
         region_id |-> 12,
         street |-> <<data["street"], <<>>>>,
         telephone |-> data["telephone"]],
     shippingMethod |-> [carrier_code |-> "flatrate", method_code |-> "flatrate"],
     paymentMethod |-> [code |-> "checkmo"]]

\* (variant: the result of prepareCheckout is not looked at)
PrepareOk_unchecked(checkoutResult) == TRUE

\* if (!checkoutResult) throw
PrepareOk(checkoutResult) == ~checkoutResult.null

\* paypalResult && paypalResult.approvalUrl
ApprovalOk(paypalResult) == ~paypalResult.null /\ paypalResult.approvalUrl # NoUrl

\* (variant: the button does not sit inside the wrapper that gets hidden)
CanClick_outsideWrapper == pc # "closed" /\ ~dom.btnDisabled

\* The place-order button can be clicked: the page is there, the wrapper that
\* holds the button is displayed and the button is not disabled.
CanClick == pc # "closed" /\ dom.wrapper /\ ~dom.btnDisabled

\* (variant: the errors are not put into the form)
displayErrors_none(d, errors) == d

\* displayErrors: every error element is cleared, then the element of each
\* key of errors gets its message.
displayErrors(d, errors) == [d EXCEPT !.fieldErrors = errors]

\* (variant: the button stays enabled while the attempt runs)
DisableButton_not(d) == d

\* $placeOrderBtn.disabled = true
DisableButton(d) == [d EXCEPT !.btnDisabled = TRUE]

\* The user leaves the form with the content `form` and clicks the button:
\* the click handler up to its await of prepareCheckout, or to a return.
handlePlaceOrder(form) ==
    /\ UNCHANGED sideVars
    /\ CanClick
    /\ calls.prepare < MaxAttempts
    /\ LET cartId == getCartId
           data == TrimmedForm(form)
           validation == validateForm(data)
       IN  IF ~CartPresent(cartId)
           THEN /\ currentNotification' = showNotification(<<"Cart not found">>, "error")
                /\ dom' = [dom EXCEPT !.form = form]
                /\ UNCHANGED <<localStorage, po, checkoutData, calls, attempt>>
           ELSE IF ~validation.isValid
           THEN /\ dom' = displayErrors([dom EXCEPT !.form = form], validation.errors)
                /\ currentNotification' =
                      showNotification(<<"Please fill in all required fields">>, "error")
                /\ UNCHANGED <<localStorage, po, checkoutData, calls, attempt>>
           ELSE /\ localStorage' = saveAddress(data)
                /\ checkoutData' = BuildCheckoutData(cartId, data)
                /\ dom' = DisableButton([dom EXCEPT !.form = form])
                /\ po' = "preparing"
                /\ calls' = [calls EXCEPT !.prepare = @ + 1]
                /\ attempt' = [NoAttempt EXCEPT !.prepare = "pending"]
                /\ UNCHANGED currentNotification
    /\ UNCHANGED <<orders, pageNo, url, placeResult, pc, arg, createArgs, currentCartData,
                   captureOutcome, resumeFailure, completed, placedCarts>>

\* What came back from checkout-prepare and from paypal-order-create, as the
\* history of the attempt records it.
PrepareOutcomeOf(r) ==
    IF r.threw THEN "threw" ELSE IF r.value.null THEN "null" ELSE "cart"

CreateOutcomeOf(r) ==
    IF r.threw THEN "threw"
    ELSE IF r.value.null THEN "null"
    ELSE IF r.value.approvalUrl = NoUrl THEN "noUrl" ELSE "url"

\* (variant: the catch leaves the button disabled)
PlaceOrderFailed_stuck(message) ==
    /\ currentNotification' = showNotification(message, "error")
    /\ dom' = dom
    /\ po' = "idle"
    /\ checkoutData' = NoCheckoutData
    /\ createArgs' = NoCreateArgs

\* The catch of handlePlaceOrder: the message is shown, the button re-enabled.
PlaceOrderFailed(message) ==
    /\ currentNotification' = showNotification(message, "error")
    /\ dom' = [dom EXCEPT !.btnDisabled = FALSE]
    /\ po' = "idle"
    /\ checkoutData' = NoCheckoutData
    /\ createArgs' = NoCreateArgs

\* handlePlaceOrder from the arrival of the prepare response up to the await
\* of createPayPalOrder, or to its catch.  The cart id is read again; the
\* amount is the grand total of currentCartData, which is still null when the
\* cart of this page has not arrived.
handlePlaceOrder_prepared(resp) ==
    /\ UNCHANGED sideVars
    /\ po = "preparing"
    /\ pc # "closed"
    /\ LET r == prepareCheckout(resp)
       IN  IF r.threw
           THEN /\ PlaceOrderFailed(<<r.msg>>)
                /\ attempt' = [attempt EXCEPT !.prepare = PrepareOutcomeOf(r)]
                /\ UNCHANGED calls
           ELSE IF ~PrepareOk(r.value)
           THEN /\ PlaceOrderFailed(<<"Failed to prepare checkout">>)
                /\ attempt' = [attempt EXCEPT !.prepare = PrepareOutcomeOf(r)]
                /\ UNCHANGED calls
           ELSE IF currentCartData.null
           THEN /\ PlaceOrderFailed(<<"Cannot read properties of null (reading 'prices')">>)
                /\ attempt' = [attempt EXCEPT !.prepare = PrepareOutcomeOf(r)]
                /\ UNCHANGED calls
           ELSE /\ createArgs' = [cartId |-> getCartId, value |-> currentCartData.grandTotal]
                /\ po' = "creating"
                /\ calls' = [calls EXCEPT !.create = @ + 1]
                /\ attempt' = [attempt EXCEPT !.prepare = PrepareOutcomeOf(r),
                                              !.create = "pending"]
                /\ UNCHANGED <<dom, currentNotification, checkoutData>>
    /\ UNCHANGED <<storeVars, pageNo, url, placeResult, pc, arg, currentCartData,
                   captureOutcome, resumeFailure, completed, placedCarts>>

\* What paypal-order-create can answer: a failure, or data naming a provider
\* order that did not exist before.
CreateResponses ==
    FailureResponses
        \cup {[kind |-> "ok", body |-> d] : d \in PayPalOrders(Tokens \ IssuedTokens)}

TokenOf(approvalUrl) == approvalUrl[2]

\* handlePlaceOrder from the arrival of the create response to its end: the
\* redirect to the approval URL, which ends this page instance, or the catch.
handlePlaceOrder_created(resp) ==
    /\ UNCHANGED sideVars
    /\ po = "creating"
    /\ pc # "closed"
    /\ LET r == createPayPalOrder(resp)
       IN  IF r.threw \/ ~ApprovalOk(r.value)
           THEN /\ PlaceOrderFailed(IF r.threw THEN <<r.msg>>
                                    ELSE <<"Failed to create PayPal order">>)
                /\ attempt' = [attempt EXCEPT !.create = CreateOutcomeOf(r)]
                /\ UNCHANGED <<orders, pc, arg>>
           ELSE /\ currentNotification' =
                      showNotification(<<"Redirecting to PayPal...">>, "info")
                /\ attempt' = [attempt EXCEPT !.create = CreateOutcomeOf(r),
                                              !.redirected = TRUE]
                /\ orders' = IF r.value.approvalUrl = NoUrl THEN orders
                             ELSE [orders EXCEPT ![TokenOf(r.value.approvalUrl)] =
                                     [issued |-> TRUE, cartId |-> createArgs.cartId,
                                      value |-> createArgs.value]]
                /\ pc' = "closed"
                /\ arg' = NULL
                /\ po' = "idle"
                /\ UNCHANGED <<dom, checkoutData, createArgs>>
    /\ UNCHANGED <<localStorage, pageNo, url, placeResult, currentCartData, calls,
                   captureOutcome, resumeFailure, completed, placedCarts>>

\* ------------------------------------------------------------- environment
\* Another page of the storefront stores the identifier of a cart for which
\* no order has been placed (the 'storage' event of the cart page).
ExternalSetCartId(c) ==
    /\ UNCHANGED sideVars
    /\ c # localStorage.cartId
    /\ c \notin placedCarts
    /\ localStorage' = [localStorage EXCEPT !.cartId = c]
    /\ UNCHANGED <<orders, pageVars, histVars>>

\* ------------------------------------------------------------ validateForm
MaxEdits == 2       \* corrections of one field followed by a new validationResult

\* What one field of the object given to validateForm can hold: nothing,
\* blanks, text, text padded with blanks, and email-like texts.
FieldValues ==
    {<<>>, <<" ">>, Txt, <<" ", "b", " ">>, GoodEmail, <<"a", "@", "b">>,
     <<"a", " ", "@", "b", ".", "c">>}

\* validateForm(data) is called for the object built from the form.
Validate ==
    /\ validationResult = NotValidated
    /\ validationResult' = {validateForm(fieldInput)}
    /\ UNCHANGED <<fieldInput, edits, checkoutVars, adapterVars, compareVars, filterVars, notifyVars, cartPageVars>>

\* The user changes one field and validateForm is called again.
Revalidate(f, v) ==
    /\ validationResult # NotValidated
    /\ edits < MaxEdits
    /\ fieldInput[f] # v
    /\ fieldInput' = [fieldInput EXCEPT ![f] = v]
    /\ validationResult' = {validateForm(fieldInput')}
    /\ edits' = edits + 1
    /\ UNCHANGED <<checkoutVars, adapterVars, compareVars, filterVars, notifyVars, cartPageVars>>

InitValidate ==
    /\ NoPage
    /\ fieldInput \in AllFormInputs
    /\ validationResult = NotValidated
    /\ edits = 0
    /\ NoAdapterCall
    /\ NoCompare
    /\ NoFilter
    /\ NoNotifications
    /\ NoCartPage

NextValidate ==
    \/ Validate
    \/ \E f \in FieldSet, v \in FieldValues : Revalidate(f, v)

SpecValidate == InitValidate /\ [][NextValidate]_vars

\* ------------------------------------------------- the adapter operations
MaxCalls == 2       \* adapter calls made one after the other

AdapterOps == {"prepareCheckout", "createPayPalOrder", "capturePayPalOrder", "placeOrder"}

\* What the endpoint of an operation can answer: any failure, or its data.
AdapterResponses(op) ==
    IF op \notin AdapterOps THEN {}
    ELSE AllFailureResponses \cup
            {[kind |-> "ok", body |-> d] :
                d \in CASE op = "prepareCheckout" -> PreparedCarts("c1")
                       [] op = "createPayPalOrder" -> PayPalOrders(Tokens)
                       [] op = "capturePayPalOrder" -> Captures
                       [] op = "placeOrder" -> PlacedOrders}

AdapterResult(op, resp) ==
    CASE op = "prepareCheckout" -> prepareCheckout(resp)
      [] op = "createPayPalOrder" -> createPayPalOrder(resp)
      [] op = "capturePayPalOrder" -> capturePayPalOrder(resp)
      [] op = "placeOrder" -> placeOrder(resp)

\* An adapter operation is called: its fetch is in flight.
AdapterCall(op) ==
    /\ request = NULL
    /\ Len(adapterLog) < MaxCalls
    /\ request' = op
    /\ UNCHANGED <<adapterLog, checkoutVars, valVars, compareVars, filterVars, notifyVars, cartPageVars>>

\* The response arrives: the operation returns its data or throws an Error.
AdapterReturn(resp) ==
    /\ request # NULL
    /\ LET r == AdapterResult(request, resp)
       IN  adapterLog' = Append(adapterLog,
               [op |-> request, kind |-> resp.kind,
                errorBody |-> IF resp.kind = "http_error" THEN resp.body ELSE NULL,
                threw |-> r.threw, msg |-> r.msg])
    /\ request' = NULL
    /\ UNCHANGED <<checkoutVars, valVars, compareVars, filterVars, notifyVars, cartPageVars>>

NextAdapters ==
    \/ \E op \in AdapterOps : AdapterCall(op)
    \/ \E resp \in AdapterResponses(request) : AdapterReturn(resp)

SpecAdapters == Init /\ [][NextAdapters]_vars

\* ------------------------------------------------------- the compare list
\* The product page, the product list page and the compare page keep the
\* list of compared SKUs in localStorage under 'comparedProducts'.
MAX_COMPARE_PRODUCTS == 3

\* SKUs of the catalog; the empty string is the missing SKU of a product
\* whose data has not arrived.
Skus == {"s1", "s2", "s3", "s4"}
SkuArgs == Skus \cup {""}

ComparePages == {"pdp", "plp", "compare"}

RECURSIVE ArraysOf(_)
ArraysOf(n) ==
    IF n = 0 THEN {<<>>}
    ELSE LET shorter == ArraysOf(n - 1)
         IN  shorter \cup {Append(a, s) : a \in {b \in shorter : Len(b) = n - 1},
                                          s \in Skus}

\* (variant: no SKU is ever found in the list)
includes_never(products, sku) == FALSE

includes(products, sku) == \E i \in 1..Len(products) : products[i] = sku

NoDuplicates(products) ==
    \A i, j \in 1..Len(products) : products[i] = products[j] => i = j

\* What localStorage can hold under the key: nothing, text that is not JSON,
\* JSON that is not an array, or a JSON array of SKUs.  The pages write only
\* arrays; the other values, an array longer than the maximum and an array
\* with a repeated SKU come from other writers of the same origin.
ValidStoredLists ==
    {[kind |-> "array", items |-> a] :
        a \in {b \in ArraysOf(MAX_COMPARE_PRODUCTS) : NoDuplicates(b)}}
StoredValues ==
    {NoStoredValue, [kind |-> "corrupt", items |-> <<>>],
     [kind |-> "notArray", items |-> <<>>],
     [kind |-> "array", items |-> <<"s1", "s2", "s3", "s4">>],
     [kind |-> "array", items |-> <<"s1", "s1", "s2">>]}
        \cup ValidStoredLists

slice(products, n) ==
    SubSeq(products, 1, IF Len(products) < n THEN Len(products) ELSE n)

filterOut(products, sku) ==
    SelectSeq(products, LAMBDA p : p # sku)

\* !stored and the catch give []; so does JSON that is not an array.
getComparedProducts(stored) ==
    IF stored.kind = "array"
    THEN slice(stored.items, MAX_COMPARE_PRODUCTS)
    ELSE <<>>

\* (variant: the list is never full)
CompareListFull_never(products) == FALSE

CompareListFull(products) == Len(products) >= MAX_COMPARE_PRODUCTS

\* (variant: the event is emitted before the list is written)
StoredAtEmit_beforeWrite(before, written) == before

\* events.emit runs after localStorage.setItem: a listener called by the
\* event reads the written value.
StoredAtEmit(before, written) == written

\* The compare button listening to 'compare-products-updated' reads the list
\* again (isProductInCompare).
updateButtonState(stored) == getComparedProducts(stored)

\* What decorate of the compare page shows after reading the list.
CompareView(stored) ==
    IF Len(getComparedProducts(stored)) = 0 THEN "empty" ELSE "loading"

\* A page using the list is opened.  The product pages render their compare
\* button from the stored list; the compare page reads the list, shows the
\* empty state when it is empty and otherwise fetches the products.
OpenComparePage(page) ==
    /\ comparePage' = page
    /\ listenerList' = getComparedProducts(comparedProducts)
    /\ compareState' = IF page = "compare" THEN CompareView(comparedProducts)
                       ELSE NULL
    /\ lastCompareOp' = NoCompareOp
    /\ UNCHANGED <<comparedProducts, checkoutVars, valVars, adapterVars, filterVars, notifyVars, cartPageVars>>

\* The product fetches of the compare page have all settled.
productsFetched(anyValid) ==
    /\ comparePage = "compare"
    /\ compareState = "loading"
    /\ compareState' = IF anyValid THEN "table" ELSE "empty"
    /\ UNCHANGED <<comparedProducts, comparePage, listenerList, lastCompareOp,
                   checkoutVars, valVars, adapterVars, filterVars, notifyVars, cartPageVars>>

\* addToCompare of the product page and of the product list page.
addToCompare(sku) ==
    /\ comparePage \in {"pdp", "plp"}
    /\ LET products == getComparedProducts(comparedProducts)
           rejected == \/ sku = ""
                       \/ includes(products, sku)
                       \/ CompareListFull(products)
           written == [kind |-> "array", items |-> Append(products, sku)]
       IN  IF rejected
           THEN /\ lastCompareOp' = [op |-> "add", sku |-> sku, success |-> FALSE,
                                     wrote |-> FALSE, emitted |-> FALSE,
                                     reloaded |-> FALSE]
                /\ UNCHANGED <<comparedProducts, listenerList>>
           ELSE /\ comparedProducts' = written
                /\ listenerList' =
                       updateButtonState(StoredAtEmit(comparedProducts, written))
                /\ lastCompareOp' = [op |-> "add", sku |-> sku, success |-> TRUE,
                                     wrote |-> TRUE, emitted |-> TRUE,
                                     reloaded |-> FALSE]
    /\ UNCHANGED <<comparePage, compareState, checkoutVars, valVars, adapterVars,
                   filterVars, notifyVars, cartPageVars>>

\* removeFromCompare of the product page and of the product list page.
removeFromCompare(sku) ==
    /\ comparePage \in {"pdp", "plp"}
    /\ LET updated == [kind |-> "array",
                       items |-> filterOut(getComparedProducts(comparedProducts), sku)]
       IN  /\ comparedProducts' = updated
           /\ listenerList' =
                  updateButtonState(StoredAtEmit(comparedProducts, updated))
    /\ lastCompareOp' = [op |-> "remove", sku |-> sku, success |-> TRUE,
                         wrote |-> TRUE, emitted |-> TRUE, reloaded |-> FALSE]
    /\ UNCHANGED <<comparePage, compareState, checkoutVars, valVars, adapterVars,
                   filterVars, notifyVars, cartPageVars>>

\* removeFromCompare of the compare page, behind the remove button of a
\* product in the table: it writes the list and reloads the page, whose
\* decorate reads the list again.  It emits no event.
removeFromCompare_comparePage(sku) ==
    /\ comparePage = "compare"
    /\ compareState = "table"
    /\ includes(listenerList, sku)
    /\ LET updated == [kind |-> "array",
                       items |-> filterOut(getComparedProducts(comparedProducts), sku)]
       IN  /\ comparedProducts' = updated
           /\ listenerList' = getComparedProducts(updated)
           /\ compareState' = CompareView(updated)
    /\ lastCompareOp' = [op |-> "remove", sku |-> sku, success |-> TRUE,
                         wrote |-> TRUE, emitted |-> FALSE, reloaded |-> TRUE]
    /\ UNCHANGED <<comparePage, checkoutVars, valVars, adapterVars, filterVars, notifyVars, cartPageVars>>

InitCompare ==
    /\ NoPage
    /\ fieldInput = BlankForm
    /\ validationResult = NotValidated
    /\ edits = 0
    /\ NoAdapterCall
    /\ comparedProducts \in StoredValues
    /\ comparePage = NULL
    /\ compareState = NULL
    /\ listenerList = <<>>
    /\ lastCompareOp = NoCompareOp
    /\ NoFilter
    /\ NoNotifications
    /\ NoCartPage

NextCompare ==
    \/ \E page \in ComparePages : OpenComparePage(page)
    \/ \E anyValid \in BOOLEAN : productsFetched(anyValid)
    \/ \E sku \in SkuArgs : addToCompare(sku)
    \/ \E sku \in SkuArgs : removeFromCompare(sku)
    \/ \E sku \in Skus : removeFromCompare_comparePage(sku)

SpecCompare == InitCompare /\ [][NextCompare]_vars

\* ------------------------------------------------ the filter URL parameter
\* The product list page writes the filters of a search request into the
\* 'filter' URL parameter and reads them back on load.  A string is a
\* sequence of characters.
MaxFilters == 2     \* filters in the list of one search request

DigitChars == <<"0", "1", "2", "3", "4", "5", "6", "7", "8", "9">>

IsDigit(c) == \E i \in 1..10 : DigitChars[i] = c

DigitValue(c) == (CHOOSE i \in 1..10 : DigitChars[i] = c) - 1

\* A JavaScript number: an integer or NaN.
Num(n) == [nan |-> FALSE, n |-> n]
NaN == [nan |-> TRUE, n |-> 0]

RECURSIVE DecimalValue(_)
DecimalValue(str) ==
    IF str = <<>> THEN 0
    ELSE 10 * DecimalValue(SubSeq(str, 1, Len(str) - 1)) + DigitValue(str[Len(str)])

\* Number(string): the empty string is 0, a digit string its value, any
\* other string of the alphabet used here NaN.
Number(str) ==
    IF \A i \in 1..Len(str) : IsDigit(str[i]) THEN Num(DecimalValue(str)) ELSE NaN

RECURSIVE DecimalString(_)
DecimalString(n) ==
    IF n < 10 THEN <<DigitChars[n + 1]>>
    ELSE DecimalString(n \div 10) \o <<DigitChars[(n % 10) + 1]>>

\* A number inside a template literal.
NumberString(x) == IF x.nan THEN <<"N", "a", "N">> ELSE DecimalString(x.n)

hasChar(str, c) == \E i \in 1..Len(str) : str[i] = c

RECURSIVE split(_, _)
split(str, sep) ==
    IF ~hasChar(str, sep) THEN <<str>>
    ELSE LET i == CHOOSE k \in 1..Len(str) :
                      str[k] = sep /\ \A j \in 1..(k - 1) : str[j] # sep
         IN  <<SubSeq(str, 1, i - 1)>> \o split(SubSeq(str, i + 1, Len(str)), sep)

RECURSIVE join(_, _)
join(strs, sep) ==
    IF strs = <<>> THEN <<>>
    ELSE IF Len(strs) = 1 THEN strs[1]
    ELSE strs[1] \o <<sep>> \o join(Tail(strs), sep)

\* decodeURIComponent throws URIError on a '%' that does not start an
\* escape; no string used here holds '%' followed by two hex digits.
decodeURIComponent(str) ==
    IF hasChar(str, "%") THEN [threw |-> TRUE, value |-> <<>>]
    ELSE [threw |-> FALSE, value |-> str]

\* A filter has an attribute and either 'in' values or a range; the field
\* that is absent is the empty set.
InFilter(attribute, values) ==
    [attribute |-> attribute, inValues |-> {values}, range |-> {}]
RangeFilter(attribute, from, to) ==
    [attribute |-> attribute, inValues |-> {},
     range |-> {[from |-> from, to |-> to]}]

\* One filter of the parameter: attribute:value.
FilterFromPart(part) ==
    LET fields == split(part, ":")
        attribute == fields[1]
        value == fields[2]
    IN  IF hasChar(value, ",") THEN InFilter(attribute, split(value, ","))
        ELSE IF hasChar(value, "-")
        THEN LET ends == split(value, "-")
             IN  RangeFilter(attribute, Number(ends[1]), Number(ends[2]))
        ELSE InFilter(attribute, <<value>>)

RECURSIVE FiltersFromParts(_)
FiltersFromParts(parts) ==
    IF parts = <<>> THEN <<>>
    ELSE (IF hasChar(parts[1], ":") THEN <<FilterFromPart(parts[1])>> ELSE <<>>)
             \o FiltersFromParts(Tail(parts))

getFilterFromParams(param) ==
    IF param = <<>> THEN [threw |-> FALSE, value |-> <<>>]
    ELSE LET decodedParam == decodeURIComponent(param)
         IN  IF decodedParam.threw THEN [threw |-> TRUE, value |-> <<>>]
             ELSE [threw |-> FALSE,
                   value |-> FiltersFromParts(split(decodedParam.value, "|"))]

\* One filter as text, or nothing for a filter with neither field.
ParamOfFilter(f) ==
    IF f.inValues # {}
    THEN {f.attribute \o <<":">> \o join(CHOOSE v \in f.inValues : TRUE, ",")}
    ELSE IF f.range # {}
    THEN LET r == CHOOSE x \in f.range : TRUE
         IN  {f.attribute \o <<":">> \o NumberString(r.from) \o <<"-">>
                  \o NumberString(r.to)}
    ELSE {}

RECURSIVE ParamsOfFilters(_)
ParamsOfFilters(filters) ==
    IF filters = <<>> THEN <<>>
    ELSE (IF ParamOfFilter(filters[1]) = {} THEN <<>>
          ELSE <<CHOOSE s \in ParamOfFilter(filters[1]) : TRUE>>)
             \o ParamsOfFilters(Tail(filters))

getParamsFromFilter(filters) ==
    IF filters = <<>> THEN <<>> ELSE join(ParamsOfFilters(filters), "|")

\* The filters of a request: 'in' filters of up to two values and price
\* ranges.  The values include one with a comma, as the page's own
\* visibility value 'Catalog, Search', one with a dash and one with '%'.
FilterValues ==
    {<<"x">>, <<"y">>, <<"x", ",", "y">>, <<"x", "-", "y">>, <<"%">>}
RangeEnds == {Num(1), Num(50)}
InValueLists ==
    {<<>>} \cup {<<v>> : v \in FilterValues}
           \cup {<<v, w>> : v \in FilterValues, w \in FilterValues}
Filters ==
    {InFilter(<<"c">>, values) : values \in InValueLists}
        \cup {RangeFilter(<<"p">>, from, to) : from \in RangeEnds, to \in RangeEnds}

RECURSIVE FilterLists(_)
FilterLists(n) ==
    IF n = 0 THEN {<<>>}
    ELSE LET shorter == FilterLists(n - 1)
         IN  shorter \cup {Append(l, f) : l \in {k \in shorter : Len(k) = n - 1},
                                          f \in Filters}

\* The 'search/result' listener writes the filters of the request into the
\* URL.
writeFilterParam ==
    /\ filterParam = {}
    /\ filterParam' = {getParamsFromFilter(filter)}
    /\ UNCHANGED <<filter, filterFromParams, checkoutVars, valVars, adapterVars,
                   compareVars, notifyVars, cartPageVars>>

\* decorate reads the filters back from the URL.
readFilterParam ==
    /\ filterParam # {}
    /\ filterFromParams = {}
    /\ filterFromParams' = {getFilterFromParams(CHOOSE s \in filterParam : TRUE)}
    /\ UNCHANGED <<filter, filterParam, checkoutVars, valVars, adapterVars,
                   compareVars, notifyVars, cartPageVars>>

InitFilters ==
    /\ NoPage
    /\ fieldInput = BlankForm
    /\ validationResult = NotValidated
    /\ edits = 0
    /\ NoAdapterCall
    /\ NoCompare
    /\ filter \in FilterLists(MaxFilters)
    /\ filterParam = {}
    /\ filterFromParams = {}
    /\ NoNotifications
    /\ NoCartPage

NextFilters ==
    \/ writeFilterParam
    \/ readFilterParam

SpecFilters == InitFilters /\ [][NextFilters]_vars

\* ------------------------------------------------------- the notifications
\* showNotification of the checkout page with its timers.  A notification is
\* known by its position in the order of the calls.
MaxNotifications == 3   \* calls of showNotification on one page

NotificationTypes == {"info", "success", "error"}

\* The notification that currentNotification refers to: the latest one.
CurrentOf(shown) == Len(shown)

\* showNotification: the current notification, if any, is removed, the new
\* one rendered and a timer of 5 seconds started.
showNotificationCall(type) ==
    /\ Len(notifications) < MaxNotifications
    /\ lastRemoval' = IF notificationShown
                      THEN [notification |-> CurrentOf(notifications),
                            cause |-> "replaced", timer |-> 0]
                      ELSE lastRemoval
    /\ notifications' = Append(notifications, type)
    /\ notificationShown' = TRUE
    /\ notificationTimers' = notificationTimers \cup {Len(notifications) + 1}
    /\ UNCHANGED <<checkoutVars, valVars, adapterVars, compareVars, filterVars, cartPageVars>>

\* onDismiss of the notification in the document.
onDismiss ==
    /\ notificationShown
    /\ notificationShown' = FALSE
    /\ lastRemoval' = [notification |-> CurrentOf(notifications),
                       cause |-> "dismiss", timer |-> 0]
    /\ UNCHANGED <<notifications, notificationTimers, checkoutVars, valVars,
                   adapterVars, compareVars, filterVars, cartPageVars>>

\* The callback of a timer: currentNotification?.remove(), where
\* currentNotification is the variable as it is when the timer fires.  The
\* timers have the same delay and fire in the order they were started.
timerFires(t) ==
    /\ t \in notificationTimers
    /\ \A u \in notificationTimers : t <= u
    /\ notificationTimers' = notificationTimers \ {t}
    /\ IF notificationShown
       THEN /\ notificationShown' = FALSE
            /\ lastRemoval' = [notification |-> CurrentOf(notifications),
                               cause |-> "timer", timer |-> t]
       ELSE UNCHANGED <<notificationShown, lastRemoval>>
    /\ UNCHANGED <<notifications, checkoutVars, valVars, adapterVars, compareVars,
                   filterVars, cartPageVars>>

NextNotify ==
    \/ \E type \in NotificationTypes : showNotificationCall(type)
    \/ onDismiss
    \/ \E t \in notificationTimers : timerFires(t)

SpecNotify == Init /\ [][NextNotify]_vars

\* ------------------------------------------------------------ the cart page
\* The cart page with one item in the cart and a cart id in localStorage.
\* The quantity 0 stands for the cart without the item, shown as the empty
\* cart.  A request is handled by the service when it is sent; its response
\* arrives later, in any order with the others.
MaxRequests == 2    \* requests the user starts on one page

\* What the user can leave in the quantity input: nothing (parseInt gives
\* NaN), 0 and 3.
TypedQuantities == {NaN, Num(0), Num(3)}

\* quantity < 1 in JavaScript: false for NaN.
LessThan1(q) == ~q.nan /\ q.n < 1

\* if (newQuantity < 1) newQuantity = 1
ClampToOne(q) == IF LessThan1(q) THEN Num(1) ELSE q

Plus(q, d) == IF q.nan THEN NaN ELSE Num(q.n + d)

\* JSON.stringify of the quantity in the request body: NaN becomes null.
WireQuantity(q) ==
    IF q.nan THEN [null |-> TRUE, n |-> 0] ELSE [null |-> FALSE, n |-> q.n]

\* cart-update-item for quantity q: the service sets the quantity and
\* returns the cart, or fails and leaves the cart; without a quantity it
\* fails.
UpdateRequest(q, ok) ==
    LET done == ok /\ ~q.nan
    IN  [id |-> cartIssued + 1, kind |-> "update", origin |-> "update",
         ok |-> done, cart |-> IF done THEN q.n ELSE cartServer]

\* cart-remove-item.
RemoveRequest(ok) ==
    [id |-> cartIssued + 1, kind |-> "remove", origin |-> "remove",
     ok |-> ok, cart |-> IF ok THEN 0 ELSE cartServer]

\* cart-get, for loadCart or for the fallback of removeCartItem.
GetRequest(origin, ok) ==
    [id |-> cartIssued + 1, kind |-> "get", origin |-> origin,
     ok |-> ok, cart |-> cartServer]

NoCartHistory ==
    [updates |-> 0, lastUpdateCart |-> 0, onlyUpdates |-> TRUE,
     lastRemove |-> "none"]

\* updateQuantity with updateCartItemQuantity up to its fetch: a quantity
\* below 1 throws, the catch shows the message and calls loadCart; any other
\* quantity is sent.
updateQuantity(q) ==
    /\ cartIssued < MaxRequests
    /\ cartIssued' = cartIssued + 1
    /\ \E ok \in BOOLEAN :
          IF LessThan1(q)
          THEN /\ cartNotice' = "Quantity must be at least 1"
               /\ cartRequests' = cartRequests \cup {GetRequest("load", ok)}
               /\ cartHistory' = [cartHistory EXCEPT !.onlyUpdates = FALSE]
               /\ UNCHANGED <<cartServer, cartSent>>
          ELSE LET req == UpdateRequest(q, ok)
               IN  /\ cartRequests' = cartRequests \cup {req}
                   /\ cartServer' = req.cart
                   /\ cartSent' = cartSent \cup {WireQuantity(q)}
                   /\ cartHistory' =
                          [cartHistory EXCEPT !.updates = @ + 1,
                                              !.lastUpdateCart = req.cart,
                                              !.onlyUpdates = @ /\ req.ok]
                   /\ UNCHANGED cartNotice

\* The change listener of the quantity input: the value is parsed, clamped
\* and handed to a timer of 500 ms that replaces the one pending.
changeQuantity(typed) ==
    /\ cartShown > 0
    /\ cartInput' = ClampToOne(typed)
    /\ cartDebounce' = {ClampToOne(typed)}
    /\ UNCHANGED <<cartServer, cartShown, cartRequests, cartNotice, cartIssued,
                   cartSent, cartHistory, checkoutVars, valVars, adapterVars,
                   compareVars, filterVars, notifyVars>>

\* The timer of the change listener fires.
debounceFires ==
    /\ cartDebounce # {}
    /\ updateQuantity(CHOOSE q \in cartDebounce : TRUE)
    /\ cartDebounce' = {}
    /\ UNCHANGED <<cartShown, cartInput, checkoutVars, valVars, adapterVars,
                   compareVars, filterVars, notifyVars>>

\* The click listener of the decrease button.
decreaseClick ==
    /\ cartShown > 0
    /\ LET newQuantity == ClampToOne(Plus(cartInput, -1))
       IN  /\ cartInput' = newQuantity
           /\ updateQuantity(newQuantity)
    /\ UNCHANGED <<cartShown, cartDebounce, checkoutVars, valVars, adapterVars,
                   compareVars, filterVars, notifyVars>>

\* The click listener of the increase button.
increaseClick ==
    /\ cartShown > 0
    /\ LET newQuantity == Plus(cartInput, 1)
       IN  /\ cartInput' = newQuantity
           /\ updateQuantity(newQuantity)
    /\ UNCHANGED <<cartShown, cartDebounce, checkoutVars, valVars, adapterVars,
                   compareVars, filterVars, notifyVars>>

\* The click listener of the remove button, confirmed by the user, up to the
\* fetch of removeCartItem.
removeClick(ok) ==
    /\ cartShown > 0
    /\ cartIssued < MaxRequests
    /\ cartIssued' = cartIssued + 1
    /\ cartRequests' = cartRequests \cup {RemoveRequest(ok)}
    /\ cartServer' = RemoveRequest(ok).cart
    /\ cartHistory' = [cartHistory EXCEPT !.onlyUpdates = FALSE,
                                          !.lastRemove = IF ok THEN "ok" ELSE "failed"]
    /\ UNCHANGED <<cartShown, cartInput, cartDebounce, cartNotice, cartSent,
                   checkoutVars, valVars, adapterVars, compareVars, filterVars,
                   notifyVars>>

\* renderCartItems and renderOrderSummary for the cart of a response.
RenderCart(cart) ==
    /\ cartShown' = cart
    /\ cartInput' = Num(cart)

\* A response arrives and the code waiting for it runs up to its next await.
responseArrives(req) ==
    /\ UNCHANGED <<cartServer, cartDebounce, cartSent, cartHistory>>
    /\ CASE req.kind = "update" /\ req.ok ->
                /\ RenderCart(req.cart)
                /\ cartNotice' = "Cart updated successfully"
                /\ cartRequests' = cartRequests \ {req}
                /\ UNCHANGED cartIssued
         [] req.kind = "update" /\ ~req.ok ->
                /\ cartNotice' = "Failed to update cart item"
                /\ \E ok \in BOOLEAN :
                      cartRequests' = (cartRequests \ {req}) \cup {GetRequest("load", ok)}
                /\ cartIssued' = cartIssued + 1
                /\ UNCHANGED <<cartShown, cartInput>>
         [] req.kind = "remove" /\ req.ok ->
                /\ RenderCart(req.cart)
                /\ cartNotice' = "Item removed from cart"
                /\ cartRequests' = cartRequests \ {req}
                /\ UNCHANGED cartIssued
         [] req.kind = "remove" /\ ~req.ok ->
                /\ \E ok \in BOOLEAN :
                      cartRequests' =
                          (cartRequests \ {req}) \cup {GetRequest("removeFallback", ok)}
                /\ cartIssued' = cartIssued + 1
                /\ UNCHANGED <<cartShown, cartInput, cartNotice>>
         [] req.kind = "get" /\ req.origin = "load" ->
                /\ RenderCart(IF req.ok THEN req.cart ELSE 0)
                /\ cartRequests' = cartRequests \ {req}
                /\ UNCHANGED <<cartNotice, cartIssued>>
         [] req.kind = "get" /\ req.origin = "removeFallback" ->
                /\ IF req.ok
                   THEN /\ RenderCart(req.cart)
                        /\ cartNotice' = "Item removed from cart"
                   ELSE UNCHANGED <<cartShown, cartInput, cartNotice>>
                /\ cartRequests' = cartRequests \ {req}
                /\ UNCHANGED cartIssued
    /\ UNCHANGED <<checkoutVars, valVars, adapterVars, compareVars, filterVars,
                   notifyVars>>

\* The cart page has loaded the cart, which holds the item once or twice.
InitCart ==
    /\ NoPage
    /\ fieldInput = BlankForm
    /\ validationResult = NotValidated
    /\ edits = 0
    /\ NoAdapterCall
    /\ NoCompare
    /\ NoFilter
    /\ NoNotifications
    /\ cartServer \in {1, 2}
    /\ cartShown = cartServer
    /\ cartInput = Num(cartServer)
    /\ cartDebounce = {}
    /\ cartRequests = {}
    /\ cartNotice = NULL
    /\ cartIssued = 0
    /\ cartSent = {}
    /\ cartHistory = NoCartHistory

NextCart ==
    \/ \E typed \in TypedQuantities : changeQuantity(typed)
    \/ debounceFires
    \/ decreaseClick
    \/ increaseClick
    \/ \E ok \in BOOLEAN : removeClick(ok)
    \/ \E req \in cartRequests : responseArrives(req)

SpecCart == InitCart /\ [][NextCart]_vars

\* ------------------------------------------------------------ specification
Next ==
    \/ \E t \in IssuedTokens \cup {NULL} : decorate(t)
    \/ \E r \in CartResponses(arg) : loadCart(r)
    \/ \E r \in CaptureResponses : handlePayPalReturn_captured(r)
    \/ \E r \in PlaceResponses : handlePayPalReturn_placed(r)
    \/ \E f \in FormInputs \cup {dom.form} : handlePlaceOrder(f)
    \/ \E r \in PrepareResponses(checkoutData.cartId) : handlePlaceOrder_prepared(r)
    \/ \E r \in CreateResponses : handlePlaceOrder_created(r)
    \/ \E c \in CartIds : ExternalSetCartId(c)

Spec == Init /\ [][Next]_vars

\* Another checkout page of the same origin has finished its order and called
\* clearCartId while this page shows its form and has not yet sent a request
\* of its own.
ExternalClearCartId ==
    /\ UNCHANGED sideVars
    /\ CanClick
    /\ calls = NoCalls
    /\ localStorage.cartId # NULL
    /\ localStorage' = clearCartId
    /\ UNCHANGED <<orders, pageVars, histVars>>

\* The checkout page next to another page that removes the cart id.
NextCleared ==
    \/ Next
    \/ ExternalClearCartId

SpecCleared == Init /\ [][NextCleared]_vars

\* ------------------------------------------------------------------ claims
\* The page has finished loading: decorate() has returned or is gone.
PageAtRest == pc = "ready"

ErrorViewShown == dom.empty /\ ~dom.wrapper /\ dom.emptyView = "error"
SuccessViewShown == dom.empty /\ ~dom.wrapper /\ dom.emptyView = "success"
EmptyCartViewShown == dom.empty /\ ~dom.wrapper /\ dom.emptyView = "emptyCart"

PlaceFailureSteps == {"placeCall", "placeEmpty"}

\* C1: in the resume flow placeOrder is invoked only after capturePayPalOrder
\* returned a result with status SUCCESS; after a capture that threw, came
\* back empty or had any other status, placeOrder is never called.
C1_PlaceOnlyAfterSettledCapture ==
    /\ (calls.place > 0 \/ pc = "placing") => captureOutcome = "SUCCESS"
    /\ captureOutcome \in {"threw", "empty", "notSettled"} =>
          calls.place = 0 /\ pc # "placing"

C1_Witness == pc = "placing" /\ calls.place = 1 /\ captureOutcome = "SUCCESS"

\* C2: once the resume of a token has completed, a page loaded with that
\* token makes no capture call.
C2_NoCaptureAfterCompleted ==
    [][(pageNo' # pageNo /\ url' \in completed) => calls'.capture = 0]_vars

C4_SuccessViewOnReload ==
    (PageAtRest /\ url \in completed /\ getCartId = NULL) => SuccessViewShown

\* C5: a page instance calls capture at most once and placeOrder at most
\* once, exactly once each when it reaches Completed, and a placeOrder that
\* failed is not issued again.
C5_OnceEachPerResume ==
    /\ calls.capture <= 1
    /\ calls.place <= 1
    /\ dom.emptyView = "success" => calls.capture = 1 /\ calls.place = 1
    /\ resumeFailure \in PlaceFailureSteps => calls.place = 1 /\ pc # "placing"

C5_Witness == SuccessViewShown /\ calls.capture = 1 /\ calls.place = 1

\* C6: after placeOrder failed following a settled capture, the page that has
\* finished loading shows the error view whose detail is the place-order
\* failure (the adapter's message), which no capture failure produces.
C6_PlaceFailureViewStays ==
    (resumeFailure \in PlaceFailureSteps /\ PageAtRest) =>
        /\ ErrorViewShown
        /\ dom.detail[1] \in {"Failed to place order: ", "Failed to place order"}

\* C7: after any failure of the resume the page ends in the error view, makes
\* no further adapter call and offers no checkout form.
C7_ResumeFailureIsFinal ==
    resumeFailure # "none" =>
        /\ pc \notin {"capturing", "placing"}
        /\ po = "idle"
        /\ calls.prepare = 0 /\ calls.create = 0
        /\ ~dom.wrapper
        /\ PageAtRest => ErrorViewShown

\* C8: a resume that finds no cart id in localStorage ends in the error view
\* 'Cart not found'; that page makes no placeOrder, prepareCheckout or
\* createPayPalOrder call, offers no form, and any later change of the stored
\* cart id is not a step of that page.
C8_MissingCartIsFatal ==
    [][resumeFailure' = "cartMissing" =>
          /\ pc' = "ready" /\ po' = "idle"
          /\ ErrorViewShown' /\ dom'.detail = <<"Cart not found">>
          /\ calls'.place = 0 /\ calls'.prepare = 0 /\ calls'.create = 0
          /\ getCartId' # getCartId =>
                (resumeFailure = "cartMissing" /\ UNCHANGED pageVars)]_vars

C8_Witness ==
    /\ resumeFailure = "cartMissing"
    /\ captureOutcome = "SUCCESS"
    /\ PageAtRest
    /\ ErrorViewShown

\* C9: when the cart of a page has loaded with zero line items, the empty-cart
\* view is shown, the form is hidden, and the page has made and makes no
\* adapter call.
C9_EmptyCartNoAdapterCall ==
    (~currentCartData.null /\ currentCartData.items = 0) =>
        /\ EmptyCartViewShown
        /\ calls = NoCalls
        /\ po = "idle"

\* C10: createPayPalOrder is called only after prepareCheckout returned a
\* cart, the redirect is issued only after createPayPalOrder returned an
\* approval URL, and after a failure of either the attempt makes no call and
\* no redirect.
C10_PrepareThenCreateThenRedirect ==
    /\ (po = "creating" \/ attempt.create # "none") => attempt.prepare = "cart"
    /\ attempt.redirected => attempt.create = "url"
    /\ attempt.prepare \in {"threw", "null"} =>
          attempt.create = "none" /\ po = "idle" /\ ~attempt.redirected
    /\ attempt.create \in {"threw", "null", "noUrl"} =>
          po = "idle" /\ ~attempt.redirected

C10_Witness == attempt.redirected /\ attempt.prepare = "cart" /\ attempt.create = "url"

\* C11: no place-order attempt starts while prepareCheckout or
\* createPayPalOrder of an earlier attempt is pending, none starts or runs
\* while the capture or place-order call of a resume is pending, and each
\* attempt has at most one call pending.
C11_OneCallInFlight ==
    [][/\ calls'.prepare # calls.prepare /\ pageNo' = pageNo =>
             /\ po = "idle"
             /\ pc \notin {"capturing", "placing"}
       /\ pc' \in {"capturing", "placing"} => po' = "idle"
       /\ ~(attempt'.prepare = "pending" /\ attempt'.create = "pending")]_vars

C11_Witness ==
    /\ po = "preparing"
    /\ calls.prepare = 2
    /\ resumeFailure # "none"

\* C12: the step in which prepareCheckout or createPayPalOrder fails leaves
\* the button enabled and the stored cart id present and untouched; from a
\* page in that condition whose form is displayed, a click with valid input
\* is possible, and every click that follows such a failure and passes
\* validation starts a fresh attempt at prepareCheckout.
PrepareFailed == attempt.prepare \in {"threw", "null"}
ExternalOrderFailed == attempt.create \in {"threw", "null", "noUrl"}

C12_RetryAfterFailure ==
    /\ [][/\ (~(PrepareFailed \/ ExternalOrderFailed)
              /\ (PrepareFailed \/ ExternalOrderFailed)') =>
                /\ ~dom'.btnDisabled
                /\ po' = "idle"
                /\ pc' # "closed"
                /\ getCartId' = getCartId
                /\ CartPresent(getCartId')
          /\ ((PrepareFailed \/ ExternalOrderFailed)
              /\ calls'.prepare = calls.prepare + 1) =>
                /\ po' = "preparing"
                /\ attempt' = [NoAttempt EXCEPT !.prepare = "pending"]
                /\ checkoutData'.cartId = getCartId]_vars
    /\ []((/\ PrepareFailed \/ ExternalOrderFailed
           /\ dom.wrapper
           /\ CartPresent(getCartId)
           /\ calls.prepare < MaxAttempts) => ENABLED handlePlaceOrder(ValidForm))

C12_Witness ==
    /\ po = "preparing"
    /\ calls.prepare = 2
    /\ attempt = [NoAttempt EXCEPT !.prepare = "pending"]
    /\ resumeFailure = "none"
    /\ currentNotification.message = <<"Failed to prepare checkout">>

\* C13: the step that issues the redirect leaves in localStorage a cart id
\* the attempt used (the one sent to prepareCheckout or the one sent to
\* createPayPalOrder) and, as guestAddress, the address that was submitted
\* and validated for the attempt.
C13_StoreHoldsAttemptState ==
    [][(attempt'.redirected /\ ~attempt.redirected) =>
          /\ getCartId' \in {checkoutData.cartId, createArgs.cartId}
          /\ localStorage'.guestAddress = JSONstringify(TrimmedForm(dom.form))]_vars

\* C14: a step of the checkout page removes the cart id from localStorage
\* exactly when place-order has returned an order, and that step shows the
\* success view; every other step of the page (validation, prepare, create,
\* capture and place-order failures included) leaves the cart id as it was,
\* and the success view is shown only on a page whose place-order call
\* returned an order.
C14_ClearedExactlyOnOrder ==
    [][/\ (getCartId' = NULL /\ getCartId # NULL) =>
             /\ pc = "placing"
             /\ arg \notin placedCarts
             /\ placedCarts' = placedCarts \cup {arg}
       /\ placedCarts' # placedCarts =>
             /\ getCartId' = NULL
             /\ SuccessViewShown'
       /\ (pageVars' # pageVars /\ placedCarts' = placedCarts) =>
             getCartId' = getCartId
       /\ dom'.emptyView = "success" => url' \in completed']_vars

C14_Witness ==
    /\ SuccessViewShown
    /\ getCartId = NULL
    /\ url \in completed
    /\ PageAtRest

\* C15: when the capture of a page returned status SUCCESS and place-order
\* returned {order: {number: N}}, the success view shows the order number N.
C15_FlatOrderNumberShown ==
    (/\ SuccessViewShown
     /\ captureOutcome = "SUCCESS"
     /\ placeResult.order = "flat"
     /\ placeResult.orderNumber = NULL) => dom.orderNumber = OrderNo

\* C16: the cart id passed to placeOrder by the resume of a token is the cart
\* id that was passed to createPayPalOrder when the provider order of that
\* token was created, whatever happened to localStorage in between.
C16_PlaceOrderForCreatedCart ==
    pc = "placing" => arg = orders[url].cartId

\* C17: when prepareCheckout returns a cart, currentCartData is replaced by
\* it, and the amount sent to createPayPalOrder is the grand total of that
\* cart.
C17_AmountOfPreparedCart ==
    [][(po' = "creating" /\ po = "preparing") =>
          \E d \in PreparedCarts(checkoutData.cartId) :
              /\ ~d.null
              /\ currentCartData' = transformCartData(d)
              /\ createArgs'.value \in d.grand]_vars

\* C18: a page loaded with a token makes capturePayPalOrder its first remote
\* call and starts no cart load before the resume has failed; a page loaded
\* without a token never calls capturePayPalOrder or placeOrder.
C18_TokenEntersResume ==
    [][/\ pageNo' # pageNo =>
             IF url' # NULL
             THEN pc' = "capturing" /\ calls' = [NoCalls EXCEPT !.capture = 1]
             ELSE pc' \in {"loadingCart", "ready"} /\ calls' = NoCalls
       /\ (url' # NULL /\ pc' = "loadingCart") => resumeFailure' # "none"
       /\ (url' # NULL /\ ~currentCartData'.null) => resumeFailure' # "none"
       /\ url' = NULL =>
             /\ pc' \notin {"capturing", "placing"}
             /\ calls'.capture = 0 /\ calls'.place = 0]_vars

C18_Witness ==
    /\ url # NULL
    /\ resumeFailure # "none"
    /\ ~currentCartData.null
    /\ PageAtRest

\* C19: whatever the fields hold, validateForm returns isValid true with no
\* entry in errors, or isValid false with at least one entry in errors.
C19_ValidIffNoErrors ==
    \A v \in validationResult :
        \/ v.isValid /\ \A f \in FieldSet : v.errors[f] = NULL
        \/ ~v.isValid /\ \E f \in FieldSet : v.errors[f] # NULL

C19_Witness ==
    /\ \E v \in validationResult : ~v.isValid /\ v.errors["company"] # NULL
    /\ fieldInput["guestEmail"] = GoodEmail
    /\ edits > 0

\* C20: the entry of errors for a field depends on that field alone: it is
\* the required message when the field is empty or holds only blanks, the
\* email-format message when guestEmail holds more than blanks and fails
\* isValidEmail, and absent otherwise; a correction of one field leaves the
\* entries of all other fields as they were.
OnlyBlanks(v) == \A i \in 1..Len(v) : v[i] = " "

ExpectedError(f, v) ==
    IF OnlyBlanks(v) THEN RequiredMessage(f)
    ELSE IF f = "guestEmail" /\ ~isValidEmail(v)
         THEN "Please enter a valid email address"
         ELSE NULL

C20_FieldsIndependent ==
    /\ [](\A v \in validationResult : \A f \in FieldSet :
             v.errors[f] = ExpectedError(f, fieldInput[f]))
    /\ [][\A v \in validationResult, w \in validationResult' : \A f \in FieldSet :
             fieldInput'[f] = fieldInput[f] => w.errors[f] = v.errors[f]]_vars

C20_Witness ==
    /\ \E v \in validationResult :
          /\ v.errors["guestEmail"] = "Please enter a valid email address"
          /\ v.errors["street"] = "Street address is required"
          /\ v.errors["city"] = NULL
    /\ fieldInput["street"] = <<" ">>
    /\ edits = 2

\* C21: a click whose form fails validation makes no adapter call, writes
\* neither the guest address nor the cart id, leaves the button enabled and
\* the positions of the page as they were, and shows the error of every
\* failing field.
FailsValidation(form) ==
    \E f \in FieldSet : ExpectedError(f, form[f]) # NULL

C21_RejectedSubmitChangesNothing ==
    [][\A form \in FormInputs \cup {dom.form} :
          (/\ handlePlaceOrder(form)
           /\ CartPresent(getCartId)
           /\ FailsValidation(TrimmedForm(form))) =>
              /\ calls' = calls
              /\ localStorage' = localStorage
              /\ ~dom'.btnDisabled
              /\ po' = po /\ pc' = pc
              /\ checkoutData' = checkoutData /\ createArgs' = createArgs
              /\ currentCartData' = currentCartData
              /\ \A f \in FieldSet :
                    dom'.fieldErrors[f] =
                        ExpectedError(f, TrimmedForm(form)[f])]_vars

C21_Witness ==
    /\ dom.fieldErrors["guestEmail"] = "Please enter a valid email address"
    /\ dom.form = BadEmailForm
    /\ localStorage.guestAddress = NoAddress
    /\ calls = NoCalls
    /\ ~dom.btnDisabled

\* C22: the address saveAddress writes is read back by getSavedAddress with
\* the same value in every field, and a cart load that finds items copies
\* each stored value into the form field of the same name.
StoredValue(f) ==
    LET text == localStorage.guestAddress
    IN  {text[i][2] : i \in {j \in 1..Len(text) : text[j][1] = f}}

C22_AddressRoundTrip ==
    [][/\ localStorage'.guestAddress # localStorage.guestAddress =>
             /\ getSavedAddress' = {TrimmedForm(dom'.form)}
             /\ \A f \in FieldSet : StoredValue(f)' = {TrimmedForm(dom'.form)[f]}
       /\ (pc = "loadingCart" /\ pc' = "ready" /\ dom'.wrapper
           /\ localStorage.guestAddress # NoAddress) =>
             \A f \in FieldSet : StoredValue(f) = {dom'.form[f]}]_vars

C22_Witness ==
    /\ pageNo >= 2
    /\ PageAtRest
    /\ dom.wrapper
    /\ calls = NoCalls
    /\ dom.form = ValidForm
    /\ getSavedAddress = {ValidForm}

\* C23: when cart-get fails (transport, status not OK, body not JSON) the
\* cart load ends as it does without a cart id: the form is hidden and the
\* empty container shown (the empty-cart view on a page without token), no
\* error of the load is reported, no snapshot is kept, the step makes no
\* adapter call, and from then on that page starts none.
C23_FetchFailureIsNoCart ==
    [][/\ \A r \in AllFailureResponses :
             loadCart(r) =>
                /\ dom' = [dom EXCEPT !.wrapper = FALSE, !.empty = TRUE]
                /\ url = NULL => EmptyCartViewShown'
                /\ pc' = "ready"
                /\ currentCartData'.null
                /\ currentNotification' = currentNotification
                /\ calls' = calls /\ po' = po
       /\ (pc = "ready" /\ currentCartData.null /\ pageNo' = pageNo) =>
             calls' = calls]_vars

C23_Witness ==
    /\ url = NULL
    /\ getCartId # NULL
    /\ PageAtRest
    /\ currentCartData.null
    /\ EmptyCartViewShown
    /\ currentNotification = NoNotification
    /\ calls = NoCalls

\* C24: for a response whose status is not OK each of the four operations
\* throws an Error whose message is the message field of a JSON error body,
\* else its error field, and the generic message naming the operation and the
\* status whenever the body is anything else (JSON without those fields, text
\* that is not JSON, nothing).
GenericMessage(op) ==
    CASE op = "prepareCheckout" -> "Failed to prepare checkout: <status>"
      [] op = "createPayPalOrder" -> "Failed to create PayPal order: <status>"
      [] op = "capturePayPalOrder" -> "Failed to capture PayPal payment: <status>"
      [] op = "placeOrder" -> "Failed to place order: <status>"

NonOkEntries ==
    {adapterLog[i] : i \in {j \in 1..Len(adapterLog) : adapterLog[j].kind = "http_error"}}

C24_GenericUnlessStructured ==
    \A e \in NonOkEntries :
        /\ e.threw
        /\ e.msg = CASE e.errorBody = "json_message" -> "provider message"
                     [] e.errorBody = "json_error" -> "provider error"
                     [] OTHER -> GenericMessage(e.op)

\* C25: a transport failure of prepareCheckout or createPayPalOrder reaches
\* handlePlaceOrder converted into a failure of that step, never as the
\* exception fetch threw: what its catch shows is not the message of the
\* transport exception.
RawTransportMessage == "Failed to fetch"

C25_NoRawTransportError ==
    currentNotification.message # <<RawTransportMessage>>

\* C26: the request sent to prepareCheckout carries the stored cart id and
\* every field of the submitted address with the value the user submitted.
C26_RequestCarriesAddress ==
    po = "preparing" =>
        LET data == TrimmedForm(dom.form)
            address == checkoutData.shippingAddress
        IN  /\ checkoutData.guestEmail = data["guestEmail"]
            /\ address.firstname = data["firstname"]
            /\ address.lastname = data["lastname"]
            /\ address.company = data["company"]
            /\ address.street[1] = data["street"]
            /\ address.city = data["city"]
            /\ address.region = data["region"]
            /\ address.postcode = data["postcode"]
            /\ address.country_code = data["country_code"]
            /\ address.telephone = data["telephone"]

\* A stored value the pages themselves produce: nothing, or an array of at
\* most MAX_COMPARE_PRODUCTS SKUs none of which occurs twice.
ValidStored(stored) ==
    \/ stored = NoStoredValue
    \/ /\ stored.kind = "array"
       /\ Len(stored.items) <= MAX_COMPARE_PRODUCTS
       /\ NoDuplicates(stored.items)

\* C27: starting from an empty or valid stored list, every addToCompare and
\* removeFromCompare, of any of the three pages, leaves under
\* 'comparedProducts' a list of at most 3 SKUs with no SKU twice.
C27_ListStaysValid ==
    [][ValidStored(comparedProducts) => ValidStored(comparedProducts')]_vars

\* A fourth product was refused because the list holds three others.
C27_Witness ==
    /\ lastCompareOp.op = "add"
    /\ lastCompareOp.sku \in Skus
    /\ ~lastCompareOp.success
    /\ ValidStored(comparedProducts)
    /\ Len(comparedProducts.items) = MAX_COMPARE_PRODUCTS
    /\ ~includes(comparedProducts.items, lastCompareOp.sku)

\* C28 as stated: every step that changes the stored compare list emits
\* 'compare-products-updated' after the write, and the listeners reading the
\* list on the event hold the list now stored.
C28_EveryChangeEmits ==
    [][comparedProducts' # comparedProducts
          => /\ lastCompareOp'.emitted
             /\ listenerList' = getComparedProducts(comparedProducts')]_vars

\* C28: on the product page and the product list page every step that
\* changes the stored list emits the event after the write and the listeners
\* then hold the stored list; on the compare page a removal emits no event,
\* it writes the list and reloads the page, which reads the list again.
C28_EmitOrReload ==
    [][comparedProducts' # comparedProducts
          => /\ listenerList' = getComparedProducts(comparedProducts')
             /\ IF comparePage \in {"pdp", "plp"}
                THEN lastCompareOp'.emitted /\ ~lastCompareOp'.reloaded
                ELSE /\ comparePage = "compare"
                     /\ ~lastCompareOp'.emitted
                     /\ lastCompareOp'.reloaded
                     /\ compareState' = CompareView(comparedProducts')]_vars

\* A product was added on the product list page and the listeners saw it.
C28_Witness ==
    /\ comparePage = "plp"
    /\ lastCompareOp.op = "add"
    /\ lastCompareOp.emitted
    /\ includes(listenerList, lastCompareOp.sku)
    /\ listenerList = comparedProducts.items

\* C29: when decorate of the compare page finds an unparsable value under
\* 'comparedProducts', it removes the value from localStorage and shows the
\* empty state.
C29_CorruptedDataCleared ==
    [][(OpenComparePage("compare") /\ comparedProducts.kind = "corrupt")
          => (comparedProducts' = NoStoredValue /\ compareState' = "empty")]_vars

\* C30: the filter URL encoding round-trips: reading the parameter written
\* for a list of filters, each with an attribute and either 'in' values or
\* a from-to range, yields the same list of filters.
C30_FilterRoundTrip ==
    \A decoded \in filterFromParams :
        ~decoded.threw /\ decoded.value = filter

\* C31: a place-order click while localStorage holds no cart id shows the
\* error notification 'Cart not found' and does nothing else: no field error
\* is displayed or cleared, no address is saved, the button stays enabled,
\* no request data is built and no adapter call is made.
C31_NoCartIdRejected ==
    [][\A form \in FormInputs \cup {dom.form} :
          (handlePlaceOrder(form) /\ localStorage.cartId = NULL) =>
              /\ currentNotification' = [message |-> <<"Cart not found">>,
                                         type |-> "error"]
              /\ dom'.fieldErrors = dom.fieldErrors
              /\ ~dom'.btnDisabled
              /\ localStorage' = localStorage
              /\ calls' = calls
              /\ po' = po /\ pc' = pc /\ arg' = arg
              /\ checkoutData' = checkoutData /\ createArgs' = createArgs
              /\ currentCartData' = currentCartData
              /\ attempt' = attempt]_vars

\* A valid form was submitted without a cart id and only the notification
\* came of it.
C31_Witness ==
    /\ currentNotification = [message |-> <<"Cart not found">>, type |-> "error"]
    /\ localStorage.cartId = NULL
    /\ dom.form = ValidForm
    /\ localStorage.guestAddress = NoAddress
    /\ ~dom.btnDisabled
    /\ po = "idle"

\* The stored guest address is absent or an address no field of which fails
\* validation.
StoredAddressValid ==
    \A address \in getSavedAddress : ~FailsValidation(address)

\* C32: the checkout flow writes the guest address only in the click step
\* whose trimmed form passed validation, in the step that sends
\* prepareCheckout and so before its response; every such step stores the
\* trimmed form, and no later step of the attempt, failed or not, changes
\* it; in every reachable state the stored address is absent or valid.
C32_AddressOnlyValidated ==
    /\ [](StoredAddressValid)
    /\ [][/\ localStorage'.guestAddress # localStorage.guestAddress =>
                /\ calls'.prepare = calls.prepare + 1
                /\ po = "idle" /\ po' = "preparing"
                /\ ~FailsValidation(dom'.form)
                /\ localStorage'.guestAddress = JSONstringify(TrimmedForm(dom'.form))
          /\ \A form \in FormInputs \cup {dom.form} :
                (/\ handlePlaceOrder(form)
                 /\ localStorage.cartId # NULL
                 /\ ~FailsValidation(TrimmedForm(form))) =>
                    localStorage'.guestAddress = JSONstringify(TrimmedForm(form))
          /\ po # "idle" => localStorage'.guestAddress = localStorage.guestAddress]_vars

\* The address of a submission whose prepareCheckout failed is stored.
C32_Witness ==
    /\ PrepareFailed
    /\ po = "idle"
    /\ getSavedAddress = {TrimmedForm(ValidForm)}
    /\ currentNotification.type = "error"

\* The list addToCompare works on: the stored array cut to the maximum, or
\* the empty list when nothing usable is stored.
PreviousList ==
    IF comparedProducts.kind = "array"
    THEN SubSeq(comparedProducts.items, 1,
                IF Len(comparedProducts.items) < MAX_COMPARE_PRODUCTS
                THEN Len(comparedProducts.items) ELSE MAX_COMPARE_PRODUCTS)
    ELSE <<>>

\* C33: addToCompare with an empty SKU, a SKU already in the list or a list
\* of 3 SKUs returns success false, leaves the stored value and what the
\* listeners hold unchanged and emits no event; otherwise it returns success
\* true and the stored list is the previous list with the SKU appended.
C33_AddRejectsWithoutEffect ==
    [][\A sku \in SkuArgs :
          addToCompare(sku) =>
              IF \/ sku = ""
                 \/ \E i \in 1..Len(PreviousList) : PreviousList[i] = sku
                 \/ Len(PreviousList) >= 3
              THEN /\ ~lastCompareOp'.success
                   /\ ~lastCompareOp'.emitted
                   /\ comparedProducts' = comparedProducts
                   /\ listenerList' = listenerList
              ELSE /\ lastCompareOp'.success
                   /\ comparedProducts' =
                          [kind |-> "array", items |-> Append(PreviousList, sku)]]_vars

\* A SKU already in a list that is not full was refused.
C33_Witness ==
    /\ lastCompareOp.op = "add"
    /\ ~lastCompareOp.success
    /\ ~lastCompareOp.emitted
    /\ comparedProducts.kind = "array"
    /\ Len(comparedProducts.items) < MAX_COMPARE_PRODUCTS
    /\ \E i \in 1..Len(comparedProducts.items) :
          comparedProducts.items[i] = lastCompareOp.sku

\* C34: a notification removed by a timer is removed by the timer that was
\* started for it, never by the timer of an earlier notification.
C34_OwnTimerOnly ==
    lastRemoval.cause = "timer" => lastRemoval.timer = lastRemoval.notification

\* C35: every cart-update-item request that is sent carries a quantity of at
\* least 1; none carries a quantity that compares below 1.
C35_NoQuantityBelowOne ==
    \A sent \in cartSent : ~sent.null /\ sent.n >= 1

\* C36: when only quantity updates were requested, at least two of them, and
\* all succeeded, then once every response has arrived the cart displayed is
\* the cart returned for the update requested last.
C36_LastIssuedUpdateWins ==
    (/\ cartHistory.onlyUpdates
     /\ cartHistory.updates >= 2
     /\ cartRequests = {}
     /\ cartDebounce = {}) =>
        cartShown = cartHistory.lastUpdateCart

\* C37: the notification 'Item removed from cart' is shown only when the
\* latest cart-remove-item request succeeded.
C37_RemovedOnlyOnSuccess ==
    cartNotice = "Item removed from cart" => cartHistory.lastRemove = "ok"

=============================================================================
